---- MODULE Spec2Model ----
(***************************************************************************)
(* Model of file_scanner.py: scan_directory and its nested create_entry,   *)
(* run against small filesystems with symlinks, an exclusion list, a depth *)
(* limit, failing system calls and an arbitrary directory listing order.   *)
(*                                                                         *)
(* A path is the sequence of its segments below "/"; <<>> is "/" itself.   *)
(***************************************************************************)
EXTENDS Integers, Sequences, FiniteSets, TLC

VARIABLES
    nodes,          \* the filesystem: canonical path -> [kind, target]
    faults,         \* canonical path -> the system call failing on that object
    input,          \* the dir_path argument of scan_directory
    pc,             \* position inside scan_directory
    dir_path,       \* the local dir_path once resolved
    visited_paths,  \* the set visited_paths of the running scan
    stack,          \* the live create_entry frames, root frame first
    result,         \* the value returned by the root create_entry call
    order,          \* what iterdir yielded in this scan: listed path -> names
    stdout,         \* the documents json.dump wrote during this invocation
    prev,           \* the previous invocation: its document, order and faults
    escaped         \* TRUE once an exception propagated out of scan_directory

vars == <<nodes, faults, input, pc, dir_path, visited_paths, stack, result,
          order, stdout, prev, escaped>>

(***************************************************************************)
(* Program constants                                                       *)
(***************************************************************************)
EXCLUDED_DIRS ==
    {"/proc", "/sys", "/dev", "/run", "/tmp", "/var/cache",
     "node_modules", ".git", "__pycache__"}

MAX_DEPTH == 5

(***************************************************************************)
(* Bounds of the model                                                     *)
(***************************************************************************)
ChainLen == 7   \* directories nested below the project in the chain filesystem

(***************************************************************************)
(* Strings.  A name is compared as Python compares str values: by code     *)
(* point, position by position.                                            *)
(***************************************************************************)
CodePoints(n) ==
  CASE n = "" -> <<>>
    [] n = "home" -> <<104, 111, 109, 101>>
    [] n = "proj" -> <<112, 114, 111, 106>>
    [] n = "a" -> <<97>>
    [] n = "Z" -> <<90>>
    [] n = "a.txt" -> <<97, 46, 116, 120, 116>>
    [] n = "b.txt" -> <<98, 46, 116, 120, 116>>
    [] n = "systmp" -> <<115, 121, 115, 116, 109, 112>>
    [] n = "my-tmp-notes" -> <<109, 121, 45, 116, 109, 112, 45, 110, 111, 116, 101, 115>>
    [] n = "node_modules" -> <<110, 111, 100, 101, 95, 109, 111, 100, 117, 108, 101, 115>>
    [] n = "pkg" -> <<112, 107, 103>>
    [] n = "src" -> <<115, 114, 99>>
    [] n = ".git" -> <<46, 103, 105, 116>>
    [] n = ".env" -> <<46, 101, 110, 118>>
    [] n = "__pycache__" -> <<95, 95, 112, 121, 99, 97, 99, 104, 101, 95, 95>>
    [] n = "main.py" -> <<109, 97, 105, 110, 46, 112, 121>>
    [] n = "proc" -> <<112, 114, 111, 99>>
    [] n = "tmp" -> <<116, 109, 112>>
    [] n = "var" -> <<118, 97, 114>>
    [] n = "cache" -> <<99, 97, 99, 104, 101>>
    [] n = "A" -> <<65>>
    [] n = "B" -> <<66>>
    [] n = "l" -> <<108>>
    [] n = "k" -> <<107>>
    [] n = "x" -> <<120>>
    [] n = "y" -> <<121>>
    [] n = "d" -> <<100>>
    [] n = "c" -> <<99>>
    [] n = "s" -> <<115>>
    [] n = "t" -> <<116>>
    [] n = "runner" -> <<114, 117, 110, 110, 101, 114>>
    [] n = "workspace" -> <<119, 111, 114, 107, 115, 112, 97, 99, 101>>
    [] n = "missing" -> <<109, 105, 115, 115, 105, 110, 103>>

RECURSIVE SeqLess(_, _)
SeqLess(u, v) ==
    IF v = <<>> THEN FALSE
    ELSE IF u = <<>> THEN TRUE
    ELSE IF Head(u) # Head(v) THEN Head(u) < Head(v)
    ELSE SeqLess(Tail(u), Tail(v))

\* a < b on Python str
StrLess(a, b) == SeqLess(CodePoints(a), CodePoints(b))

\* name.startswith('.')
StartsWithDot(n) == CodePoints(n) # <<>> /\ Head(CodePoints(n)) = 46

Range(s) == {s[i] : i \in 1..Len(s)}

\* Path.name
Name(path) == IF path = <<>> THEN "" ELSE path[Len(path)]

\* Path.parent
Parent(path) == IF path = <<>> THEN <<>> ELSE SubSeq(path, 1, Len(path) - 1)

\* str(path).split(os.sep): "/" gives ['', ''], "/a/b" gives ['', 'a', 'b']
PathParts(path) == IF path = <<>> THEN <<"", "">> ELSE <<"">> \o path

is_excluded_path_no_match(path) == FALSE

is_excluded_path(path) ==
    \E excluded \in EXCLUDED_DIRS : excluded \in Range(PathParts(path))

(***************************************************************************)
(* The filesystem                                                          *)
(***************************************************************************)
Home == <<"home">>
Proj == <<"home", "proj">>
Cwd  == Home        \* the working directory a relative input is taken from
Workspace == <<"home", "runner", "workspace">>

Dir(p)     == <<p, "dir", <<>>>>
File(p)    == <<p, "file", <<>>>>
Link(p, t) == <<p, "link", t>>

MkFS(entries) ==
    [p \in {e[1] : e \in entries} |->
        LET e == CHOOSE e \in entries : e[1] = p
        IN  [kind |-> e[2], target |-> e[3]]]

Top == {Dir(<<>>), Dir(Home), Dir(Proj)}

NoFaults == [p \in {} |-> ""]

\* stat() fails with an OSError where is_file() is called, or later where
\* stat() is called; listing fails with PermissionError or another OSError;
\* "unexpected" is an exception that is no OSError
FaultKinds == {"classify", "stat", "listdir_perm", "listdir_os", "unexpected"}
FileFaultKinds == {"classify", "stat", "unexpected"}

OneFault(p, k) == [q \in {p} |-> k]

Abs(p) == [abs |-> TRUE, segs |-> p]
Rel(p) == [abs |-> FALSE, segs |-> p]

Config(n, f, i) == [nodes |-> n, faults |-> f, input |-> i]

\* the four children of the ordering example
OrderFS ==
    MkFS(Top \cup {File(Proj \o <<"b.txt">>), File(Proj \o <<"a.txt">>),
                   Dir(Proj \o <<"Z">>), Dir(Proj \o <<"a">>)})

OrderConfigs ==
    {Config(OrderFS, NoFaults, i) : i \in {Abs(Proj), Rel(<<"proj">>)}}

\* names at and near the exclusion list, and the would-be excluded system roots
ExclFS ==
    MkFS(Top \cup
         {Dir(Proj \o <<"systmp">>), File(Proj \o <<"systmp", "a.txt">>),
          Dir(Proj \o <<"node_modules">>), Dir(Proj \o <<"node_modules", "pkg">>),
          File(Proj \o <<"node_modules", "pkg", "main.py">>),
          File(Proj \o <<".env">>),
          Dir(<<"proc">>), File(<<"proc", "a.txt">>),
          Dir(<<"tmp">>),
          Dir(<<"var">>), Dir(<<"var", "cache">>), File(<<"var", "cache", "a.txt">>)})

ExclRoots ==
    {Proj, Proj \o <<"node_modules">>, Proj \o <<"node_modules", "pkg">>,
     Proj \o <<"systmp">>, <<"proc">>, <<"tmp">>, <<"var", "cache">>, <<"var">>,
     <<"home", "missing">>, <<"missing", "x">>}

ExclConfigs == {Config(ExclFS, NoFaults, Abs(r)) : r \in ExclRoots}

SrcFS ==
    MkFS(Top \cup
         {Dir(Proj \o <<"src">>), Dir(Proj \o <<"src", ".git">>),
          File(Proj \o <<"src", ".git", "main.py">>),
          Dir(Proj \o <<"src", "__pycache__">>),
          File(Proj \o <<"src", "main.py">>),
          Dir(Proj \o <<"my-tmp-notes">>), File(Proj \o <<"my-tmp-notes", "a.txt">>)})

SrcConfigs ==
    {Config(SrcFS, NoFaults, Abs(r)) :
        r \in {Proj, Proj \o <<"src">>, Proj \o <<"src", ".git">>, <<>>}}

\* symlinks: A/l and B/k point anywhere, also at themselves and at nothing
PA == Proj \o <<"A">>
PB == Proj \o <<"B">>

CycleFS(tl, tk) ==
    MkFS(Top \cup
         {Dir(PA), Link(PA \o <<"l">>, tl), Dir(PA \o <<"x">>),
          File(PA \o <<"x", "y">>),
          Dir(PB), Link(PB \o <<"k">>, tk)})

LTargets == {PA, Proj, Home, PA \o <<"x">>, PB, PA \o <<"l">>,
             <<"home", "missing">>, PA \o <<"x", "y">>}
KTargets == {PB, PA \o <<"x">>, PA}

CycleConfigs ==
    {Config(CycleFS(tl, tk), NoFaults, Abs(r)) :
        tl \in LTargets, tk \in KTargets, r \in {Proj, PA, PA \o <<"l">>}}

\* a chain of ChainLen nested directories d/d/.../d with a symlink back to
\* the project inside the directory at level lvl
Chain(n) == [i \in 1..n |-> "d"]

ChainFS(lvl) ==
    MkFS(Top \cup {Dir(Proj \o Chain(n)) : n \in 1..ChainLen}
             \cup {Link(Proj \o Chain(lvl) \o <<"l">>, Proj)})

ChainConfigs ==
    {Config(ChainFS(lvl), NoFaults, Abs(Proj \o Chain(n))) :
        lvl \in 0..ChainLen, n \in 0..1}

\* failing system calls: one object of the tree fails in one way
PC == Proj \o <<"c">>
PT == Proj \o <<"t">>

PermFS ==
    MkFS(Top \cup
         {Dir(PC), Dir(PC \o <<"x">>), File(PC \o <<"x", "y">>),
          Link(Proj \o <<"s">>, PC \o <<"x">>),
          Dir(PT), File(PT \o <<"a.txt">>)})

PermConfigs ==
    {Config(PermFS, NoFaults, Abs(Proj))}
    \cup {Config(PermFS, OneFault(p, k), Abs(Proj)) :
            p \in {Proj, PC, PT}, k \in FaultKinds}
    \cup {Config(PermFS, OneFault(PT \o <<"a.txt">>, k), Abs(Proj)) :
            k \in FileFaultKinds}
    \cup {Config(PermFS, OneFault(PC, k), Abs(PC)) : k \in FaultKinds}

\* the hosted environment in which "/" is replaced by the workspace
HostedFS ==
    MkFS({Dir(<<>>), Dir(Home), Dir(<<"home", "runner">>), Dir(Workspace),
          File(Workspace \o <<"main.py">>), File(Workspace \o <<".env">>)})

HostedConfigs ==
    {Config(HostedFS, NoFaults, Abs(r)) : r \in {<<>>, Workspace}}

Configs ==
    OrderConfigs \cup ExclConfigs \cup SrcConfigs \cup CycleConfigs
    \cup ChainConfigs \cup PermConfigs \cup HostedConfigs

(***************************************************************************)
(* Path queries against the filesystem                                     *)
(***************************************************************************)
Links == {p \in DOMAIN nodes : nodes[p].kind = "link"}

\* symlink traversals one resolution may make before it is a loop
LinkFuel(path) == (Len(path) + 1) * (Cardinality(Links) + 1)

\* os.path.realpath: follow the segments left to right, restarting from a
\* symlink's target; segments that do not exist are kept as they are
RECURSIVE Follow(_, _, _)
Follow(done, rest, fuel) ==
    IF rest = <<>> THEN [ok |-> TRUE, path |-> done]
    ELSE LET cand == Append(done, Head(rest))
         IN  IF cand \in Links
             THEN IF fuel = 0 THEN [ok |-> FALSE, path |-> cand]
                  ELSE Follow(<<>>, nodes[cand].target \o Tail(rest), fuel - 1)
             ELSE Follow(cand, Tail(rest), fuel)

\* Path.resolve(): ok = FALSE stands for the RuntimeError of a symlink loop
resolve(path) == Follow(<<>>, path, LinkFuel(path))

\* the object stat() sees at a path, "missing" if there is none
KindAt(path) ==
    LET r == resolve(path)
    IN  IF r.ok /\ r.path \in DOMAIN nodes THEN nodes[r.path].kind ELSE "missing"

\* Path.is_symlink(): lstat of the last segment
is_symlink(path) ==
    LET r == resolve(Parent(path))
    IN  path # <<>> /\ r.ok /\ Append(r.path, Name(path)) \in Links

\* os.path.exists / a Path.exists that does not fail
Exists(path) == KindAt(path) # "missing"

\* the failure injected on the object a path leads to, "" if none
FaultAt(path) ==
    LET r == resolve(path)
    IN  IF r.ok /\ r.path \in DOMAIN faults THEN faults[r.path] ELSE ""

\* the names os.listdir returns for a path that is a directory
ChildNames(path) ==
    LET c == resolve(path).path
    IN  {Name(q) : q \in {q \in DOMAIN nodes : q # <<>> /\ Parent(q) = c}}

\* every order in which iterdir may yield the names
Listings(S) ==
    {f \in [1..Cardinality(S) -> S] : \A i, j \in 1..Cardinality(S) : f[i] = f[j] => i = j}

(***************************************************************************)
(* Documents and entries.  keys is the set of keys of the dict; the other  *)
(* fields hold the values of the keys the claims speak about.              *)
(***************************************************************************)
Blank ==
    [name |-> "", path |-> <<>>, type |-> "", keys |-> {}, children |-> <<>>,
     target |-> <<>>, status |-> "", error |-> "", parent_exists |-> FALSE]

None == [Blank EXCEPT !.type = "None"]

Truthy(e) == e # None

Entry(path, type, keys) ==
    [Blank EXCEPT !.name = Name(path), !.path = path, !.type = type,
                  !.keys = {"name", "path", "type"} \cup keys]

\* lines 58-65
InvalidPathDoc(raw) ==
    [Entry(raw, "directory", {"children", "error", "status"})
        EXCEPT !.error = "Invalid path", !.status = "error"]

NotFoundDoc_bare(p) ==
    [Blank EXCEPT !.keys = {"error"}, !.error = "Directory not found"]

\* lines 72-80
NotFoundDoc(p) ==
    [Entry(p, "directory", {"children", "error", "parent_exists", "status"})
        EXCEPT !.error = "Directory not found", !.status = "not_found",
               !.parent_exists = Exists(Parent(p))]

\* lines 86-94
ExcludedDoc(p) ==
    [Entry(p, "directory", {"children", "excluded", "status", "message"})
        EXCEPT !.status = "excluded"]

\* line 225
FailedDoc == [Blank EXCEPT !.keys = {"error"}, !.error = "Failed to scan directory"]

OuterExcept_reraise == [docs |-> <<>>, escaped |-> TRUE]

\* lines 227-229: the handler around the whole of scan_directory
OuterExcept ==
    [docs |-> <<[Blank EXCEPT !.keys = {"error"}, !.error = "Scanner error"]>>,
     escaped |-> FALSE]

(***************************************************************************)
(* Sorting the children (line 195)                                         *)
(***************************************************************************)
TypeRank(x) == IF x.type = "directory" THEN 0 ELSE 1

KeyLess_name_only(x, y) == StrLess(x.name, y.name)

\* key(x) < key(y) for key = (0 if directory else 1, name)
KeyLess(x, y) ==
    \/ TypeRank(x) < TypeRank(y)
    \/ TypeRank(x) = TypeRank(y) /\ StrLess(x.name, y.name)

\* insert x after every element whose key is not greater: a stable sort
RECURSIVE InsertSorted(_, _)
InsertSorted(x, s) ==
    IF s = <<>> THEN <<x>>
    ELSE IF KeyLess(x, Head(s)) THEN <<x>> \o s
    ELSE <<Head(s)>> \o InsertSorted(x, Tail(s))

RECURSIVE sorted(_)
sorted(s) ==
    IF s = <<>> THEN <<>>
    ELSE InsertSorted(s[Len(s)], sorted(SubSeq(s, 1, Len(s) - 1)))

(***************************************************************************)
(* create_entry up to the point where it returns or starts to iterate      *)
(***************************************************************************)
Return(e, v)  == [tag |-> "return", value |-> e, visited |-> v]
Expand(e, v)  == [tag |-> "expand", value |-> e, visited |-> v]

InVisited_never(real_path, visited) == FALSE

\* line 121
InVisited(real_path, visited) == real_path \in visited

\* lines 122-128
CycleEntry(path, real_path) ==
    [Entry(path, "symlink", {"target", "cycle_detected"}) EXCEPT !.target = real_path]

\* lines 105-111
MaxDepthEntry(path) == Entry(path, "directory", {"children", "max_depth_reached"})

\* line 152
TypeOf(path) ==
    IF KindAt(path) = "file" THEN "file"
    ELSE IF KindAt(path) = "dir" THEN "directory"
    ELSE IF is_symlink(path) THEN "symlink"
    ELSE "unknown"

\* lines 165-204 for a directory, before its first child is processed
DirHead(path, depth, v) ==
    LET fault == FaultAt(path)
        statKeys == IF fault = "stat" THEN {"stat_error"}
                    ELSE {"last_modified", "creation_time"}
    IN  IF depth < MAX_DEPTH
        THEN IF fault = "listdir_perm"
             THEN Return(Entry(path, "directory",
                               statKeys \cup {"children", "permission_error"}), v)
             ELSE IF fault = "listdir_os"
             THEN Return([Entry(path, "directory", statKeys \cup {"children", "error"})
                             EXCEPT !.error = "OSError"], v)
             ELSE Expand(Entry(path, "directory", statKeys), v)
        ELSE Return(Entry(path, "directory", {"children"}), v)

\* lines 100-164 and 206-214
create_entry(path, depth, visited) ==
    IF depth > MAX_DEPTH THEN Return(MaxDepthEntry(path), visited)
    ELSE IF is_excluded_path(path) THEN Return(None, visited)
    ELSE
      LET r == resolve(path) IN
      IF ~r.ok THEN Return(None, visited)
      ELSE IF InVisited(r.path, visited) THEN Return(CycleEntry(path, r.path), visited)
      ELSE
        LET v == visited \cup {r.path}
            fault == FaultAt(path)
        IN  IF fault = "classify"
            THEN Return([Entry(path, "unknown", {"error"}) EXCEPT !.error = "OSError"], v)
            ELSE IF fault = "unexpected"
            THEN Return([Entry(path, "error", {"error"}) EXCEPT !.error = "Exception"], v)
            ELSE IF TypeOf(path) = "file"
            THEN Return(Entry(path, "file",
                              IF fault = "stat" THEN {"size", "stat_error"} ELSE {"size"}), v)
            ELSE IF TypeOf(path) = "directory"
            THEN DirHead(path, depth, v)
            ELSE Return(Entry(path, TypeOf(path), {}), v)

Frame(path, depth) ==
    [path |-> path, depth |-> depth, stage |-> "call", entry |-> None,
     pending |-> <<>>, child |-> <<>>, children |-> <<>>]

Top1(stk) == stk[Len(stk)]
Pop(stk)  == SubSeq(stk, 1, Len(stk) - 1)

\* lines 188-192: what the caller does with the value a child call returned
Collect(frame, child_entry) ==
    IF Truthy(child_entry)
    THEN [frame EXCEPT !.children =
            Append(@, IF StartsWithDot(Name(frame.child))
                      THEN [child_entry EXCEPT !.keys = @ \cup {"hidden"}]
                      ELSE child_entry)]
    ELSE frame

\* a create_entry call returns e: to the iterating caller, or to line 218
Deliver(stk, e) ==
    IF stk = <<>>
    THEN /\ stack' = <<>>
         /\ result' = e
         /\ pc' = "finish"
    ELSE /\ stack' = [stk EXCEPT ![Len(stk)] = Collect(@, e)]
         /\ result' = result
         /\ pc' = pc

(***************************************************************************)
(* scan_directory                                                          *)
(***************************************************************************)
NoPrev == [doc |-> None, order |-> <<>>, faults |-> NoFaults, any |-> FALSE]

Init ==
    /\ \E c \in Configs :
          /\ nodes = c.nodes
          /\ faults = c.faults
          /\ input = c.input
    /\ pc = "start"
    /\ dir_path = <<>>
    /\ visited_paths = {}
    /\ stack = <<>>
    /\ result = None
    /\ order = <<>>
    /\ stdout = <<>>
    /\ prev = NoPrev
    /\ escaped = FALSE

\* lines 34-47: the hosted special case and the absolute form of the input
Invoke ==
    /\ pc = "start"
    /\ dir_path' = IF input.abs
                   THEN IF input.segs = <<>> /\ Exists(Workspace)
                        THEN Workspace ELSE input.segs
                   ELSE Cwd \o input.segs
    /\ pc' = "resolve"
    /\ UNCHANGED <<nodes, faults, input, visited_paths, stack, result, order,
                   stdout, prev, escaped>>

\* lines 50-55
ResolveOk ==
    /\ pc = "resolve"
    /\ resolve(dir_path).ok
    /\ dir_path' = resolve(dir_path).path
    /\ pc' = "exists"
    /\ UNCHANGED <<nodes, faults, input, visited_paths, stack, result, order,
                   stdout, prev, escaped>>

\* lines 56-66
ResolveFail ==
    /\ pc = "resolve"
    /\ ~resolve(dir_path).ok
    /\ stdout' = Append(stdout, InvalidPathDoc(dir_path))
    /\ pc' = "returned"
    /\ UNCHANGED <<nodes, faults, input, dir_path, visited_paths, stack, result,
                   order, prev, escaped>>

\* dir_path.exists() re-raises what is not "no such file"
ExistsRaises(path) == FaultAt(path) \in {"classify", "unexpected"}

\* line 69 raising, caught at line 227
ExistsFails ==
    /\ pc = "exists"
    /\ ExistsRaises(dir_path)
    /\ stdout' = stdout \o OuterExcept.docs
    /\ escaped' = OuterExcept.escaped
    /\ pc' = "returned"
    /\ UNCHANGED <<nodes, faults, input, dir_path, visited_paths, stack, result,
                   order, prev>>

\* lines 69-81
NotFound ==
    /\ pc = "exists"
    /\ ~ExistsRaises(dir_path)
    /\ ~Exists(dir_path)
    /\ stdout' = Append(stdout, NotFoundDoc(dir_path))
    /\ pc' = "returned"
    /\ UNCHANGED <<nodes, faults, input, dir_path, visited_paths, stack, result,
                   order, prev, escaped>>

\* lines 84-95
ExcludedRoot ==
    /\ pc = "exists"
    /\ ~ExistsRaises(dir_path)
    /\ Exists(dir_path)
    /\ is_excluded_path(dir_path)
    /\ stdout' = Append(stdout, ExcludedDoc(dir_path))
    /\ pc' = "returned"
    /\ UNCHANGED <<nodes, faults, input, dir_path, visited_paths, stack, result,
                   order, prev, escaped>>

\* lines 97-98 and 217-218: the call create_entry(dir_path)
StartWalk ==
    /\ pc = "exists"
    /\ ~ExistsRaises(dir_path)
    /\ Exists(dir_path)
    /\ ~is_excluded_path(dir_path)
    /\ visited_paths' = {}
    /\ stack' = <<Frame(dir_path, 0)>>
    /\ pc' = "walk"
    /\ UNCHANGED <<nodes, faults, input, dir_path, result, order, stdout, prev,
                   escaped>>

\* a call of create_entry that returns without iterating
CallReturn ==
    /\ pc = "walk"
    /\ stack # <<>>
    /\ Top1(stack).stage = "call"
    /\ LET f == Top1(stack)
           r == create_entry(f.path, f.depth, visited_paths)
       IN  /\ r.tag = "return"
           /\ visited_paths' = r.visited
           /\ Deliver(Pop(stack), r.value)
    /\ UNCHANGED <<nodes, faults, input, dir_path, order, stdout, prev, escaped>>

\* a call of create_entry that reaches line 179: iterdir yields the names
CallExpand ==
    /\ pc = "walk"
    /\ stack # <<>>
    /\ Top1(stack).stage = "call"
    /\ LET f == Top1(stack)
           r == create_entry(f.path, f.depth, visited_paths)
       IN  /\ r.tag = "expand"
           /\ visited_paths' = r.visited
           /\ \E names \in Listings(ChildNames(f.path)) :
                /\ stack' = [stack EXCEPT ![Len(stack)] =
                               [f EXCEPT !.stage = "iter", !.entry = r.value,
                                         !.pending = names]]
                /\ order' = [q \in DOMAIN order \cup {f.path} |->
                               IF q = f.path THEN names ELSE order[q]]
    /\ UNCHANGED <<nodes, faults, input, pc, dir_path, result, stdout, prev,
                   escaped>>

\* lines 179-187: the next child, create_entry(child, depth + 1)
IterNext ==
    /\ pc = "walk"
    /\ stack # <<>>
    /\ Top1(stack).stage = "iter"
    /\ Top1(stack).pending # <<>>
    /\ LET f == Top1(stack)
           child == Append(f.path, Head(f.pending))
       IN  stack' = Append([stack EXCEPT ![Len(stack)] =
                               [f EXCEPT !.pending = Tail(@), !.child = child]],
                           Frame(child, f.depth + 1))
    /\ UNCHANGED <<nodes, faults, input, pc, dir_path, visited_paths, result,
                   order, stdout, prev, escaped>>

\* lines 195-196 and 206: the loop is over, sort the children and return
EndIter ==
    /\ pc = "walk"
    /\ stack # <<>>
    /\ Top1(stack).stage = "iter"
    /\ Top1(stack).pending = <<>>
    /\ LET f == Top1(stack)
           e == [f.entry EXCEPT !.children = sorted(f.children),
                                !.keys = @ \cup {"children"}]
       IN  Deliver(Pop(stack), e)
    /\ UNCHANGED <<nodes, faults, input, dir_path, visited_paths, order, stdout,
                   prev, escaped>>

\* lines 220-225
Finish ==
    /\ pc = "finish"
    /\ stdout' = Append(stdout, IF Truthy(result) THEN result ELSE FailedDoc)
    /\ pc' = "returned"
    /\ UNCHANGED <<nodes, faults, input, dir_path, visited_paths, stack, result,
                   order, prev, escaped>>

(***************************************************************************)
(* The environment: the program is run again on the same input, and the    *)
(* failing object may have been repaired in between.                       *)
(***************************************************************************)
Remember ==
    /\ prev' = [doc |-> IF stdout = <<>> THEN None ELSE stdout[1],
                order |-> order, faults |-> faults, any |-> TRUE]
    /\ pc' = "start"
    /\ dir_path' = <<>>
    /\ visited_paths' = {}
    /\ stack' = <<>>
    /\ result' = None
    /\ order' = <<>>
    /\ stdout' = <<>>
    /\ escaped' = FALSE

Rerun ==
    /\ pc = "returned"
    /\ Remember
    /\ UNCHANGED <<nodes, faults, input>>

RepairAndRerun ==
    /\ pc = "returned"
    /\ faults # NoFaults
    /\ faults' = NoFaults
    /\ Remember
    /\ UNCHANGED <<nodes, input>>

Next ==
    \/ Invoke \/ ResolveOk \/ ResolveFail \/ ExistsFails \/ NotFound
    \/ ExcludedRoot \/ StartWalk
    \/ CallReturn \/ CallExpand \/ IterNext \/ EndIter \/ Finish
    \/ Rerun \/ RepairAndRerun

Spec == Init /\ [][Next]_vars

(***************************************************************************)
(* Vocabulary of the properties                                            *)
(***************************************************************************)
RECURSIVE Entries(_)
Entries(e) == {e} \cup UNION {Entries(e.children[i]) : i \in 1..Len(e.children)}

IsPrefix(p, q) == Len(p) <= Len(q) /\ SubSeq(q, 1, Len(p)) = p

Returned == pc = "returned"

\* the invocation returned and its document is the tree the walk built
Walked == Returned /\ result # None /\ stdout = <<result>>

Doc == stdout[1]

HasDeniedSegment(path) == \E i \in 1..Len(path) : path[i] \in EXCLUDED_DIRS

\* the paths create_entry was called on below the root: every name of every
\* directory the walk listed
Called == UNION {{Append(P, order[P][i]) : i \in 1..Len(order[P])} : P \in DOMAIN order}

EntryAt(path) == {e \in Entries(Doc) : e.path = path}

IsCycleEntry(e, real_path) ==
    /\ "cycle_detected" \in e.keys
    /\ e.type = "symlink"
    /\ "target" \in e.keys /\ e.target = real_path
    /\ "children" \notin e.keys /\ e.children = <<>>

\* the walk entered the canonical form of path on its way from the root to path
LoopsBack(path) ==
    /\ resolve(path).ok
    /\ \E k \in Len(dir_path)..(Len(path) - 1) :
          resolve(SubSeq(path, 1, k)).path = resolve(path).path

NoReentry ==
    \A P, Q \in DOMAIN order : resolve(P).path = resolve(Q).path => P = Q

(***************************************************************************)
(* C1                                                                      *)
(***************************************************************************)
\* C1 as claimed: whenever a directory A that the walk lists contains a
\* symlink that resolves to A or to an ancestor of A, the document holds an
\* entry for the symlink with cycle_detected, type 'symlink', the canonical
\* target and no children.
C1_AsClaimed ==
    Walked =>
      \A L \in Links :
        LET A == Parent(L)
            t == resolve(L)
        IN  (t.ok /\ IsPrefix(t.path, A) /\ A \in DOMAIN order)
            => \E e \in EntryAt(L) : IsCycleEntry(e, t.path)

C1_Safe ==
    /\ NoReentry
    /\ Walked =>
         \A c \in Called :
           (is_symlink(c) /\ ~HasDeniedSegment(c) /\ LoopsBack(c))
           => /\ EntryAt(c) # {}
              /\ \A e \in EntryAt(c) : IsCycleEntry(e, resolve(c).path)

\* A variant of one invocation.  MaxFan is the largest number of names a
\* directory holds; CallWeight(d) bounds the work a call at depth d can cause.
MaxFan ==
    LET fan(p) == Cardinality({q \in DOMAIN nodes : q # <<>> /\ Parent(q) = p})
    IN  CHOOSE n \in 0..Cardinality(DOMAIN nodes) :
          /\ \A p \in DOMAIN nodes : fan(p) <= n
          /\ \E p \in DOMAIN nodes : fan(p) = n

RECURSIVE CallWeight(_)
CallWeight(d) ==
    IF d >= MAX_DEPTH THEN 1 ELSE MaxFan * (1 + CallWeight(d + 1)) + 2

FrameWeight(f) ==
    IF f.stage = "call" THEN CallWeight(f.depth)
    ELSE Len(f.pending) * (1 + CallWeight(f.depth + 1)) + 1

RECURSIVE StackWeight(_)
StackWeight(stk) ==
    IF stk = <<>> THEN 0 ELSE FrameWeight(Head(stk)) + StackWeight(Tail(stk))

PcRank ==
    CASE pc = "start" -> 5 [] pc = "resolve" -> 4 [] pc = "exists" -> 3
      [] pc = "walk" -> 2 [] pc = "finish" -> 1 [] pc = "returned" -> 0

\* every step of an invocation brings it nearer to its return
Progress ==
    pc # "returned" =>
      \/ PcRank' < PcRank
      \/ PcRank' = PcRank /\ StackWeight(stack)' < StackWeight(stack)

\* C1 amended: every scan terminates (each step of an invocation decreases a
\* natural-number variant); the walk lists no canonical path twice; and every
\* symlink on a non-excluded path, found in a directory A that the walk lists,
\* that resolves to A or to an ancestor of A at or below the scan root is
\* emitted with cycle_detected, type 'symlink', the canonical target and no
\* children.
C1_Amended == [](C1_Safe) /\ [][Progress]_vars

C1_Witness ==
    /\ Walked
    /\ \E c \in Called :
          /\ is_symlink(c) /\ ~HasDeniedSegment(c) /\ LoopsBack(c)
          /\ \E e \in EntryAt(c) : IsCycleEntry(e, resolve(c).path)

(***************************************************************************)
(* C2                                                                      *)
(***************************************************************************)
\* the entries of the document that lie on the chain d/d/.../d
OnChain(e) == \E n \in 1..ChainLen : e.path = Proj \o Chain(n)

\* C2: when the scanned chain of directories is deeper than MAX_DEPTH, the
\* deepest entry emitted on the chain has max_depth_reached and children = [],
\* and no entry lies deeper than MAX_DEPTH + 1 below the root.
C2_AsClaimed ==
    (Walked /\ (dir_path \o Chain(MAX_DEPTH + 1)) \in DOMAIN nodes
            /\ IsPrefix(Proj, dir_path))
    => /\ \A e \in Entries(Doc) :
            (OnChain(e) /\ \A f \in Entries(Doc) : OnChain(f) => Len(f.path) <= Len(e.path))
            => /\ "max_depth_reached" \in e.keys
               /\ "children" \in e.keys /\ e.children = <<>>
       /\ \A e \in Entries(Doc) : Len(e.path) <= Len(dir_path) + MAX_DEPTH + 1

(***************************************************************************)
(* C3                                                                      *)
(***************************************************************************)
RootMissing == Returned /\ resolve(dir_path).ok /\ ~Exists(dir_path)

Names(ch) == [i \in 1..Len(ch) |-> ch[i].name]

DirsFirst(ch) ==
    \A i, j \in 1..Len(ch) :
        (i < j /\ ch[j].type = "directory") => ch[i].type = "directory"

OrderExample(e) == Range(Names(e.children)) = {"b.txt", "a.txt", "Z", "a"}

\* C4 as claimed: directories first and, for the children b.txt, a.txt, Z, a,
\* the sequence a, Z, a.txt, b.txt.
C4_AsClaimed ==
    Walked =>
      \A e \in Entries(Doc) :
        /\ DirsFirst(e.children)
        /\ OrderExample(e) => Names(e.children) = <<"a", "Z", "a.txt", "b.txt">>

\* C4 amended: in every emitted directory entry the children of type
\* 'directory' precede all others and each group is in ascending code point
\* order of the names, under which 'Z' precedes 'a': for b.txt, a.txt, Z, a
\* the sequence is Z, a, a.txt, b.txt.
C4_Amended ==
    Walked =>
      \A e \in Entries(Doc) :
        /\ DirsFirst(e.children)
        /\ \A i, j \in 1..Len(e.children) :
              (i < j /\ (e.children[i].type = "directory") = (e.children[j].type = "directory"))
              => StrLess(e.children[i].name, e.children[j].name)
        /\ OrderExample(e) => Names(e.children) = <<"Z", "a", "a.txt", "b.txt">>

C4_Witness ==
    /\ Walked
    /\ OrderExample(Doc)
    /\ order[dir_path] = <<"b.txt", "a.txt", "Z", "a">>

(***************************************************************************)
(* C5                                                                      *)
(***************************************************************************)
\* the places the entries of EXCLUDED_DIRS name
DeniedRoots == {<<"proc">>, <<"sys">>, <<"dev">>, <<"run">>, <<"tmp">>, <<"var", "cache">>}
DeniedNames == {"node_modules", ".git", "__pycache__"}

Denied(path) ==
    \/ \E d \in DeniedRoots : IsPrefix(d, path)
    \/ \E i \in 1..Len(path) : path[i] \in DeniedNames

\* C5: an existing root at or below an entry of EXCLUDED_DIRS yields the
\* document with excluded = true and children = [], and no path at or below
\* an entry is visited as a descendant.
C5_AsClaimed ==
    /\ (Returned /\ resolve(dir_path).ok /\ Exists(dir_path) /\ Denied(dir_path))
       => /\ Len(stdout) = 1
          /\ "excluded" \in Doc.keys /\ "children" \in Doc.keys /\ Doc.children = <<>>
    /\ Walked => \A e \in Entries(Doc) : e.path # dir_path => ~Denied(e.path)

(***************************************************************************)
(* C6                                                                      *)
(***************************************************************************)
\* C6: of the names listed in the directories of the walk, one whose path has
\* a segment equal to an entry of EXCLUDED_DIRS contributes no entry, neither
\* itself nor a descendant, and every other one (that resolves) has its entry;
\* systmp and my-tmp-notes are entered and their file is listed.
C6_SegmentsOnly ==
    Walked =>
      /\ \A c \in Called :
           /\ HasDeniedSegment(c) => \A e \in Entries(Doc) : ~IsPrefix(c, e.path)
           /\ (~HasDeniedSegment(c) /\ resolve(c).ok) => EntryAt(c) # {}
      /\ \A c \in Called :
           (Name(c) \in {"systmp", "my-tmp-notes"} /\ Len(c) - Len(dir_path) < MAX_DEPTH)
           => \E e \in EntryAt(c) :
                /\ e.type = "directory"
                /\ Names(e.children) = <<"a.txt">>

C6_Witness ==
    /\ Walked
    /\ dir_path = Proj
    /\ Proj \o <<"node_modules">> \in Called
    /\ Proj \o <<"systmp">> \in Called
    /\ EntryAt(Proj \o <<"node_modules">>) = {}
    /\ EntryAt(Proj \o <<"systmp", "a.txt">>) # {}

(***************************************************************************)
(* C7                                                                      *)
(***************************************************************************)
\* iterdir yielded the same names in the same order wherever both scans listed
SameOrder ==
    \A q \in DOMAIN order \cap DOMAIN prev.order : order[q] = prev.order[q]

HasChildAt(P, path) == \E i \in 1..Len(P.children) : P.children[i].path = path

\* C7: a scan in which listing the child directory c raised PermissionError,
\* compared with the scan of the same tree after c was made readable (same
\* listing orders): the parent still holds an entry for c with
\* permission_error and children = [], and every sibling of c is the entry it
\* is when c is readable.
C7_AsClaimed ==
    (Walked /\ prev.any /\ faults = NoFaults /\ SameOrder)
    => \A c \in DOMAIN prev.faults :
         (prev.faults[c] = "listdir_perm" /\ c # dir_path)
         => \A P \in Entries(prev.doc) :
              HasChildAt(P, c)
              => /\ \E i \in 1..Len(P.children) :
                      /\ P.children[i].path = c
                      /\ "permission_error" \in P.children[i].keys
                      /\ P.children[i].children = <<>>
                 /\ \A i \in 1..Len(P.children) :
                      P.children[i].path # c
                      => \E Q \in Entries(Doc) :
                           /\ Q.path = P.path
                           /\ \E j \in 1..Len(Q.children) : Q.children[j] = P.children[i]

(***************************************************************************)
(* C8                                                                      *)
(***************************************************************************)
\* C8: an invocation that has returned has written exactly one document, one
\* that has not returned has written none, and no exception leaves
\* scan_directory.
C8_OneDocument ==
    /\ ~escaped
    /\ Returned => Len(stdout) = 1
    /\ ~Returned => Len(stdout) = 0

C8_Witness == Returned /\ Len(stdout) = 1 /\ Doc.error = "Scanner error"

(***************************************************************************)
(* C9                                                                      *)
(***************************************************************************)
\* C9: two invocations on the same input and the same unchanged filesystem
\* write the same document, whatever order iterdir yields the names in.
C9_AsClaimed ==
    (Returned /\ prev.any /\ prev.faults = faults /\ Len(stdout) = 1)
    => Doc = prev.doc

(***************************************************************************)
(* C10                                                                     *)
(***************************************************************************)
\* C10: an entry has cycle_detected only if its path leads back to a
\* directory entered on the way from the root to it, and an entry of type
\* 'symlink' is a symlink or such a loop, never a plain directory or file.
C10_AsClaimed ==
    Walked =>
      \A e \in Entries(Doc) :
        /\ "cycle_detected" \in e.keys => LoopsBack(e.path)
        /\ e.type = "symlink" => (is_symlink(e.path) \/ LoopsBack(e.path))

====
